---------------------------- MODULE Spec2Model ----------------------------
(***************************************************************************)
(* A state-machine model of the room-rental backend: the lease lifecycle   *)
(* (routes/leaseRoutes.js, the room update of the room routes), monthly    *)
(* invoice generation (routes/invoiceRoutes.js and the scheduled job of    *)
(* services/invoiceCronService.js), invoice payment and late-fee           *)
(* recalculation (routes/invoiceRoutes.js), the settings update            *)
(* (routes/settingsRoutes.js) and the light bills                          *)
(* (routes/lightBillRoutes.js).  Each handler is one action when requests  *)
(* are served one after the other; where requests overlap, or a write to   *)
(* the store fails, each await of a handler is a step.                     *)
(*                                                                         *)
(* Time.  An instant is a number of ticks; TicksPerDay ticks make a day    *)
(* and DaysInMonth days make a month, so that `new Date(y, m, d)' (local   *)
(* midnight of day d of month m) is MkDate(m, d).  Months are numbered     *)
(* absolutely (year * 12 + month), which is what the (year, month) pair of *)
(* the Date constructor amounts to.                                        *)
(*                                                                         *)
(* Collections.  A mongoose collection is a sequence in insertion order;   *)
(* a document's _id is its index.                                          *)
(***************************************************************************)
EXTENDS Integers, Sequences, FiniteSets, Bags, TLC

VARIABLES
    now,        \* the clock: new Date() of the next request
    leases,     \* the Lease collection
    rooms,      \* the Room collection: room id -> [status, currentLease]
    invoices,   \* the Invoice collection
    payments,   \* the Payment collection: a bag of documents (less their _id)
    bills,      \* the LightBill collection
    settings,   \* the Settings singleton: a sequence of at most one document
    proc,       \* the requests in flight: process -> its local variables
    last        \* the response of the last request that completed

vars == <<now, leases, rooms, invoices, payments, bills, settings, proc, last>>

---------------------------------------------------------------------------
(* Bounds of the model *)

TicksPerDay == 2
DaysInMonth == 2
MaxTime == 6
MaxPayTime == 3
MaxFeeTime == 4
MaxLeases == 3
MaxAmount == 3
MaxBills == 1
MaxRaceBills == 2
MaxPayments == 2

---------------------------------------------------------------------------
(* Values *)

\* an absent optional Date (Lease.endDate, a missing request field)
NoDate == -1
\* Room.currentLease: null
NoLease == 0
\* an absent numeric request field (undefined)
Absent == -1

Rooms == {"r1", "r2"}
Tenants == {"t1", "t2"}

RoomStatus == {"vacant", "occupied", "partially_occupied", "maintenance"}

Idle == [pc |-> "idle"]
Procs == {"p1", "p2"}

---------------------------------------------------------------------------
(* Dates *)

\* new Date(year, month, day): local midnight of that day; day 0 is the
\* last day of the month before, a day past the month's end rolls over
MkDate(month, day) == (month * DaysInMonth + (day - 1)) * TicksPerDay

\* today.getFullYear() * 12 + today.getMonth()
MonthOf(t) == t \div (DaysInMonth * TicksPerDay)

\* today.getDate()
DayOfMonth(t) == ((t \div TicksPerDay) % DaysInMonth) + 1

---------------------------------------------------------------------------
(* Responses *)

\* res.status(code).json(...): the operation, the status code and, for the
\* batch operations, the number of documents reported created or updated
Resp(op, code, count) == [op |-> op, code |-> code, count |-> count]

---------------------------------------------------------------------------
(* Lease lifecycle: routes/leaseRoutes.js *)

Ids(coll) == 1..Len(coll)

HasEnd(l) == l.endDate # NoDate

\* the request-body validation of POST /api/leases: the status code of the
\* early return, 0 when the body passes
LeaseBodyCode(tenant, room, startDate, rentPerMonth, depositAgreed) ==
    IF tenant = "" \/ room = "" THEN 400
    ELSE IF startDate = NoDate THEN 400
    ELSE IF rentPerMonth = Absent \/ rentPerMonth = 0 \/ rentPerMonth <= 0 THEN 400
    ELSE IF depositAgreed = Absent \/ depositAgreed = 0 \/ depositAgreed < 0 THEN 400
    ELSE IF tenant \notin Tenants THEN 404
    ELSE IF room \notin Rooms THEN 404
    ELSE 0

\* the leaseQuery of POST /api/leases applied to one stored lease
LeaseQueryMatches(l, room, startDate, endDate) ==
    /\ l.room = room
    /\ l.status \in {"upcoming", "active"}
    /\ IF endDate # NoDate
       THEN \/ (l.startDate <= startDate /\ HasEnd(l) /\ l.endDate >= startDate)
            \/ (l.startDate <= endDate /\ HasEnd(l) /\ l.endDate >= endDate)
            \/ (l.startDate >= startDate /\ HasEnd(l) /\ l.endDate <= endDate)
       ELSE l.startDate <= startDate

\* Lease.findOne(leaseQuery)
ExistingLease(room, startDate, endDate) ==
    \E i \in Ids(leases) : LeaseQueryMatches(leases[i], room, startDate, endDate)

\* the leases of a room with status active or upcoming
ActiveOrUpcomingIn(room) ==
    {i \in Ids(leases) : leases[i].room = room /\ leases[i].status \in {"active", "upcoming"}}

\* Lease.create({...}): status and billingDay take the schema's defaults
NewLease(tenant, room, startDate, endDate, rentPerMonth, depositAgreed, billingDay) ==
    [tenant |-> tenant, room |-> room,
     startDate |-> startDate, endDate |-> endDate,
     rentPerMonth |-> rentPerMonth, depositAgreed |-> depositAgreed,
     billingDay |-> IF billingDay = Absent THEN 1 ELSE billingDay,
     status |-> "active"]

\* POST /api/leases
CreateLease(tenant, room, startDate, endDate, rentPerMonth, depositAgreed, billingDay) ==
    LET bodyCode == LeaseBodyCode(tenant, room, startDate, rentPerMonth, depositAgreed)
    IN  /\ Len(leases) < MaxLeases
        /\ IF bodyCode # 0
           THEN /\ last' = Resp("createLease", bodyCode, 0)
                /\ UNCHANGED <<leases, rooms>>
           ELSE IF rooms[room].status = "occupied"
           THEN /\ last' = Resp("createLease", 400, 0)
                /\ UNCHANGED <<leases, rooms>>
           ELSE IF ExistingLease(room, startDate, endDate)
           THEN /\ last' = Resp("createLease", 400, 0)
                /\ UNCHANGED <<leases, rooms>>
           ELSE /\ leases' = Append(leases,
                       NewLease(tenant, room, startDate, endDate,
                                rentPerMonth, depositAgreed, billingDay))
                /\ rooms' = [rooms EXCEPT ![room] =
                       [status |-> "occupied", currentLease |-> Len(leases) + 1]]
                /\ last' = Resp("createLease", 201, 0)
        /\ UNCHANGED <<now, invoices, payments, bills, settings, proc>>

\* EndLease forgetting to release the room
EndLeaseKeepsRoom(id, endDate) ==
    /\ IF id \notin Ids(leases)
       THEN /\ last' = Resp("endLease", 404, 0)
            /\ UNCHANGED <<leases, rooms>>
       ELSE /\ leases' = [leases EXCEPT ![id] =
                   [@ EXCEPT !.endDate = IF endDate # NoDate THEN endDate ELSE now,
                             !.status = "ended"]]
            /\ UNCHANGED rooms
            /\ last' = Resp("endLease", 200, 0)
    /\ UNCHANGED <<now, invoices, payments, bills, settings, proc>>

\* PATCH /api/leases/:id/end
EndLease(id, endDate) ==
    /\ IF id \notin Ids(leases)
       THEN /\ last' = Resp("endLease", 404, 0)
            /\ UNCHANGED <<leases, rooms>>
       ELSE /\ leases' = [leases EXCEPT ![id] =
                   [@ EXCEPT !.endDate = IF endDate # NoDate THEN endDate ELSE now,
                             !.status = "ended"]]
            /\ rooms' = [rooms EXCEPT ![leases[id].room] =
                   [status |-> "vacant", currentLease |-> NoLease]]
            /\ last' = Resp("endLease", 200, 0)
    /\ UNCHANGED <<now, invoices, payments, bills, settings, proc>>

\* PUT /api/rooms/:id: the body's status (if any) is written to the room
UpdateRoom(room, status, defaultRent) ==
    /\ IF defaultRent # Absent /\ defaultRent <= 0
       THEN /\ last' = Resp("updateRoom", 400, 0)
            /\ UNCHANGED rooms
       ELSE IF room \notin Rooms
       THEN /\ last' = Resp("updateRoom", 404, 0)
            /\ UNCHANGED rooms
       ELSE /\ rooms' = [rooms EXCEPT ![room].status =
                   IF status = "" THEN @ ELSE status]
            /\ last' = Resp("updateRoom", 200, 0)
    /\ UNCHANGED <<now, leases, invoices, payments, bills, settings, proc>>

---------------------------------------------------------------------------
(* Monthly invoice generation: routes/invoiceRoutes.js (the endpoint) and *)
(* services/invoiceCronService.js (the scheduled job)                     *)

\* lease.billingDay || 1
BillingDayOr1(l) == IF l.billingDay = 0 THEN 1 ELSE l.billingDay

\* new Date(today.getFullYear(), today.getMonth(), 1)
FirstDay(today) == MkDate(MonthOf(today), 1)

\* new Date(today.getFullYear(), today.getMonth() + 1, 0)
LastDay(today) == MkDate(MonthOf(today) + 1, 0)

\* the endpoint: month = today.getMonth() + 1; new Date(year, month, lease.billingDay || 1)
DueDateManual(today, l) == MkDate(MonthOf(today) + 1, BillingDayOr1(l))

\* the scheduled job: month = today.getMonth(); new Date(year, month, lease.billingDay || 1)
DueDateCron(today, l) == MkDate(MonthOf(today), BillingDayOr1(l))

DueDate(kind, today, l) ==
    IF kind = "manual" THEN DueDateManual(today, l) ELSE DueDateCron(today, l)

\* a periodTo one day too far, which no stored invoice carries
ExistingInvoiceWrongPeriodTo(invs, leaseId, periodFrom, periodTo) ==
    \E k \in Ids(invs) :
        /\ invs[k].lease = leaseId
        /\ invs[k].periodFrom = periodFrom
        /\ invs[k].periodTo = periodTo + TicksPerDay

\* Invoice.findOne({lease, periodFrom, periodTo})
ExistingInvoice(invs, leaseId, periodFrom, periodTo) ==
    \E k \in Ids(invs) :
        /\ invs[k].lease = leaseId
        /\ invs[k].periodFrom = periodFrom
        /\ invs[k].periodTo = periodTo

\* Invoice.create({...}): lateFee, paidAmount and status take the schema's
\* defaults.  leaseId is lease._id and l the lease document read by Lease.find.
NewInvoice(kind, today, leaseId, l) ==
    [lease |-> leaseId, tenant |-> l.tenant, room |-> l.room,
     periodFrom |-> FirstDay(today), periodTo |-> LastDay(today),
     issueDate |-> today,
     dueDate |-> DueDate(kind, today, l),
     baseAmount |-> l.rentPerMonth, lateFee |-> 0,
     totalAmount |-> l.rentPerMonth, paidAmount |-> 0,
     status |-> "unpaid"]

\* the loop over Lease.find({}): the leases of every status invoiced
RECURSIVE GenerateFromAnyStatus(_, _, _, _)
GenerateFromAnyStatus(kind, today, i, invs) ==
    IF i > Len(leases) THEN invs
    ELSE IF ExistingInvoice(invs, i, FirstDay(today), LastDay(today))
    THEN GenerateFromAnyStatus(kind, today, i + 1, invs)
    ELSE GenerateFromAnyStatus(kind, today, i + 1,
                               Append(invs, NewInvoice(kind, today, i, leases[i])))

\* the loop over Lease.find({status: "active"}), from lease i on: the Invoice
\* collection it leaves
RECURSIVE GenerateFrom(_, _, _, _)
GenerateFrom(kind, today, i, invs) ==
    IF i > Len(leases) THEN invs
    ELSE IF leases[i].status # "active" THEN GenerateFrom(kind, today, i + 1, invs)
    ELSE IF ExistingInvoice(invs, i, FirstDay(today), LastDay(today))
    THEN GenerateFrom(kind, today, i + 1, invs)
    ELSE GenerateFrom(kind, today, i + 1,
                      Append(invs, NewInvoice(kind, today, i, leases[i])))

\* POST /api/invoices/generate-monthly, run without interruption
GenerateMonthly ==
    LET after == GenerateFrom("manual", now, 1, invoices)
    IN  /\ invoices' = after
        /\ last' = Resp("generate", 201, Len(after) - Len(invoices))
        /\ UNCHANGED <<now, leases, rooms, payments, bills, settings, proc>>

\* cron.schedule("0 2 1 * *"): the 1st of the month, after midnight
CronTime(t) == DayOfMonth(t) = 1 /\ t % TicksPerDay = 1

\* the scheduled job, run without interruption; it responds to nobody and
\* logs the number of invoices created
ScheduledGeneration ==
    LET after == GenerateFrom("cron", now, 1, invoices)
    IN  /\ CronTime(now)
        /\ invoices' = after
        /\ last' = Resp("scheduled", 0, Len(after) - Len(invoices))
        /\ UNCHANGED <<now, leases, rooms, payments, bills, settings, proc>>

---------------------------------------------------------------------------
(* Invoice payment: routes/invoiceRoutes.js *)

\* the check forgetting what was paid before
WouldExceedIgnoringPaid(inv, amount) == amount > inv.totalAmount

\* newPaidAmount > invoice.totalAmount
WouldExceed(inv, amount) == inv.paidAmount + amount > inv.totalAmount

\* the status judged by the single payment instead of the amount paid so far
StatusAfterPayByAmount(inv, amount) ==
    IF amount >= inv.totalAmount THEN "paid"
    ELSE IF inv.paidAmount + amount > 0 THEN "partially_paid"
    ELSE inv.status

\* an invoice paid to the last unit still counted as partly paid
StatusAfterPayStrict(inv, amount) ==
    IF inv.paidAmount + amount > inv.totalAmount THEN "paid"
    ELSE IF inv.paidAmount + amount > 0 THEN "partially_paid"
    ELSE inv.status

\* the status update of POST /:id/pay, paidAmount being paidAmount + amount
StatusAfterPay(inv, amount) ==
    IF inv.paidAmount + amount >= inv.totalAmount THEN "paid"
    ELSE IF inv.paidAmount + amount > 0 THEN "partially_paid"
    ELSE inv.status

\* the payment recorded with the amount paid so far
NewPaymentOfPaidSoFar(id, inv, amount) ==
    [invoice |-> id, lease |-> inv.lease, tenant |-> inv.tenant,
     amount |-> inv.paidAmount + amount]

\* Payment.create({...}); date, mode and note are stored as given and read by
\* no operation modelled here
NewPayment(id, inv, amount) ==
    [invoice |-> id, lease |-> inv.lease, tenant |-> inv.tenant, amount |-> amount]

\* POST /api/invoices/:id/pay, run without interruption
PayInvoice(id, amount) ==
    /\ IF amount = Absent \/ amount = 0 \/ amount <= 0
       THEN /\ last' = Resp("pay", 400, 0)
            /\ UNCHANGED <<invoices, payments>>
       ELSE IF id \notin Ids(invoices)
       THEN /\ last' = Resp("pay", 404, 0)
            /\ UNCHANGED <<invoices, payments>>
       ELSE IF WouldExceed(invoices[id], amount)
       THEN /\ last' = Resp("pay", 400, 0)
            /\ UNCHANGED <<invoices, payments>>
       ELSE /\ payments' = payments (+) SetToBag({NewPayment(id, invoices[id], amount)})
            /\ invoices' = [invoices EXCEPT ![id] =
                   [@ EXCEPT !.paidAmount = @ + amount,
                             !.status = StatusAfterPay(invoices[id], amount)]]
            /\ last' = Resp("pay", 201, 0)
    /\ UNCHANGED <<now, leases, rooms, bills, settings, proc>>

---------------------------------------------------------------------------
(* Late fees: routes/invoiceRoutes.js, and the settings they read *)

\* Math.floor((today - invoice.dueDate) / (1000 * 60 * 60 * 24))
DiffDays(today, dueDate) == (today - dueDate) \div TicksPerDay

\* the days of grace charged like the others
LateFeeWithoutGrace(cfg, today, inv) ==
    IF DiffDays(today, inv.dueDate) > cfg.graceDays
    THEN IF cfg.type = "per_day"
         THEN DiffDays(today, inv.dueDate) * cfg.perDayAmount
         ELSE IF cfg.type = "percentage"
         THEN (inv.baseAmount * cfg.percentage) \div 100
         ELSE 0
    ELSE 0

\* the late fee of one invoice.  The division by 100 is exact for the
\* configurations of LateFeeConfigs and the rents of the model.
LateFee(cfg, today, inv) ==
    IF DiffDays(today, inv.dueDate) > cfg.graceDays
    THEN IF cfg.type = "per_day"
         THEN (DiffDays(today, inv.dueDate) - cfg.graceDays) * cfg.perDayAmount
         ELSE IF cfg.type = "percentage"
         THEN (inv.baseAmount * cfg.percentage) \div 100
         ELSE 0
    ELSE 0

\* the overdue invoices processed too
RecalculatedWithOverdue(inv) == inv.status \in {"unpaid", "partially_paid", "overdue"}

\* the paid invoices processed too
RecalculatedWhateverStatus(inv) == inv.status \in {"unpaid", "partially_paid", "paid"}

\* Invoice.find({status: {$in: ["unpaid", "partially_paid"]}})
Recalculated(inv) == inv.status \in {"unpaid", "partially_paid"}

\* every processed invoice written, as the earlier revision of the route did
NeedsWriteAlways(inv, lateFee) == TRUE

\* lateFee !== invoice.lateFee
NeedsWrite(inv, lateFee) == lateFee # inv.lateFee

\* the late fee written without the total
RecalculateOneKeepsTotal(cfg, today, inv) ==
    IF Recalculated(inv) /\ NeedsWrite(inv, LateFee(cfg, today, inv))
    THEN [inv EXCEPT !.lateFee = LateFee(cfg, today, inv)]
    ELSE inv

\* the loop body: the invoice as the run leaves it
RecalculateOne(cfg, today, inv) ==
    IF Recalculated(inv) /\ NeedsWrite(inv, LateFee(cfg, today, inv))
    THEN [inv EXCEPT !.lateFee = LateFee(cfg, today, inv),
                     !.totalAmount = inv.baseAmount + LateFee(cfg, today, inv)]
    ELSE inv

\* updatedCount
UpdatedCount(cfg, today, invs) ==
    Cardinality({k \in Ids(invs) :
        Recalculated(invs[k]) /\ NeedsWrite(invs[k], LateFee(cfg, today, invs[k]))})

\* POST /api/invoices/recalculate-late-fees, run without interruption
RecalculateLateFees ==
    /\ IF settings = <<>>
       THEN /\ last' = Resp("recalculate", 400, 0)
            /\ UNCHANGED invoices
       ELSE /\ invoices' = [k \in Ids(invoices) |->
                   RecalculateOne(settings[1].lateFeeConfig, now, invoices[k])]
            /\ last' = Resp("recalculate", 200,
                            UpdatedCount(settings[1].lateFeeConfig, now, invoices))
    /\ UNCHANGED <<now, leases, rooms, payments, bills, settings, proc>>

\* PUT /api/settings with a body giving lateFeeConfig: Settings.create(body)
\* when there is no document, Object.assign(settings, body) and save otherwise
UpdateSettings(cfg) ==
    /\ settings' = <<[lateFeeConfig |-> cfg]>>
    /\ last' = Resp("updateSettings", 200, 0)
    /\ UNCHANGED <<now, leases, rooms, invoices, payments, bills, proc>>

\* time passes, up to a horizon
TickTo(horizon) ==
    /\ now < horizon
    /\ now' = now + 1
    /\ last' = Resp("tick", 0, 0)
    /\ UNCHANGED <<leases, rooms, invoices, payments, bills, settings, proc>>

---------------------------------------------------------------------------
(* Light bills: routes/lightBillRoutes.js.  A request field that is absent *)
(* is "" (an id), NoLease (a lease id), NoDate (a date) or Absent (a       *)
(* number); notes is stored as given and read by no operation.            *)

\* Lease.findOne({room, status: {$in: ["active", "upcoming"]}}): its _id,
\* NoLease when there is none
ActiveLeaseOfRoom(room) ==
    IF ActiveOrUpcomingIn(room) = {} THEN NoLease
    ELSE CHOOSE i \in ActiveOrUpcomingIn(room) : \A j \in ActiveOrUpcomingIn(room) : i <= j

\* the auto-fetch of tenant and lease from the room's lease
TenantOrFetched(room, tenant, lease) ==
    IF room # "" /\ (tenant = "" \/ lease = NoLease)
       /\ ActiveLeaseOfRoom(room) # NoLease /\ tenant = ""
    THEN leases[ActiveLeaseOfRoom(room)].tenant
    ELSE tenant

LeaseOrFetched(room, tenant, lease) ==
    IF room # "" /\ (tenant = "" \/ lease = NoLease)
       /\ ActiveLeaseOfRoom(room) # NoLease /\ lease = NoLease
    THEN ActiveLeaseOfRoom(room)
    ELSE lease

InvoicesOf(tenant, lease) ==
    {k \in Ids(invoices) : invoices[k].tenant = tenant /\ invoices[k].lease = lease}

\* Invoice.findOne({tenant, lease}).sort({createdAt: -1}): its _id, 0 when
\* there is none
LatestInvoice(tenant, lease) ==
    IF InvoicesOf(tenant, lease) = {} THEN 0
    ELSE CHOOSE k \in InvoicesOf(tenant, lease) : \A j \in InvoicesOf(tenant, lease) : j <= k

\* a date of the body, or the latest invoice's when the body leaves out any
\* of the four dates; tenant and lease are the values after the auto-fetch
DateOrFetched(given, fromInvoice, tenant, lease, anyMissing) ==
    IF tenant # "" /\ lease # NoLease /\ anyMissing
       /\ LatestInvoice(tenant, lease) # 0 /\ given = NoDate
    THEN fromInvoice
    ELSE given

\* the body of POST /api/light-bills after the auto-fetch and the defaults
\* of the destructuring
LightBillBody(room, tenant, lease, periodFrom, periodTo, unitsConsumed, ratePerUnit, fixedCharge, tax, issueDate, dueDate) ==
    LET t == TenantOrFetched(room, tenant, lease)
        l == LeaseOrFetched(room, tenant, lease)
        anyMissing == NoDate \in {periodFrom, periodTo, issueDate, dueDate}
        k == LatestInvoice(t, l)
    IN  [room |-> room, tenant |-> t, lease |-> l,
         periodFrom |-> DateOrFetched(periodFrom, IF k = 0 THEN NoDate ELSE invoices[k].periodFrom,
                                      t, l, anyMissing),
         periodTo |-> DateOrFetched(periodTo, IF k = 0 THEN NoDate ELSE invoices[k].periodTo,
                                    t, l, anyMissing),
         unitsConsumed |-> unitsConsumed, ratePerUnit |-> ratePerUnit,
         fixedCharge |-> IF fixedCharge = Absent THEN 0 ELSE fixedCharge,
         tax |-> IF tax = Absent THEN 0 ELSE tax,
         issueDate |-> DateOrFetched(issueDate, IF k = 0 THEN NoDate ELSE invoices[k].issueDate,
                                     t, l, anyMissing),
         dueDate |-> DateOrFetched(dueDate, IF k = 0 THEN NoDate ELSE invoices[k].dueDate,
                                   t, l, anyMissing)]

\* LightBill.findOne({room, tenant, lease, periodFrom, periodTo, _id: {$ne: except}})
ExistingBill(bs, room, tenant, lease, periodFrom, periodTo, except) ==
    \E k \in Ids(bs) :
        /\ k # except
        /\ bs[k].room = room /\ bs[k].tenant = tenant /\ bs[k].lease = lease
        /\ bs[k].periodFrom = periodFrom /\ bs[k].periodTo = periodTo

\* the validation of POST /api/light-bills on the body b: the status code of
\* the early return, 0 when the body passes
LightBillBodyCode(b) ==
    IF b.room = "" \/ b.tenant = "" \/ b.lease = NoLease THEN 400
    ELSE IF b.periodFrom = NoDate \/ b.periodTo = NoDate THEN 400
    ELSE IF b.periodFrom >= b.periodTo THEN 400
    ELSE IF b.unitsConsumed = Absent \/ b.unitsConsumed = 0 \/ b.unitsConsumed <= 0 THEN 400
    ELSE IF b.ratePerUnit = Absent \/ b.ratePerUnit = 0 \/ b.ratePerUnit <= 0 THEN 400
    ELSE IF b.issueDate = NoDate \/ b.dueDate = NoDate THEN 400
    ELSE IF b.room \notin Rooms THEN 404
    ELSE IF b.tenant \notin Tenants THEN 404
    ELSE IF b.lease \notin Ids(leases) THEN 404
    ELSE 0

\* (unitsConsumed * ratePerUnit) + fixedCharge + tax
BillTotal(unitsConsumed, ratePerUnit, fixedCharge, tax) ==
    (unitsConsumed * ratePerUnit) + fixedCharge + tax

\* LightBill.create({...}): paidAmount and status take the schema's defaults
NewLightBill(b) ==
    [room |-> b.room, tenant |-> b.tenant, lease |-> b.lease,
     periodFrom |-> b.periodFrom, periodTo |-> b.periodTo,
     unitsConsumed |-> b.unitsConsumed, ratePerUnit |-> b.ratePerUnit,
     fixedCharge |-> b.fixedCharge, tax |-> b.tax,
     totalAmount |-> BillTotal(b.unitsConsumed, b.ratePerUnit, b.fixedCharge, b.tax),
     paidAmount |-> 0, issueDate |-> b.issueDate, dueDate |-> b.dueDate,
     status |-> "unpaid"]

\* POST /api/light-bills, run without interruption
CreateLightBill(room, tenant, lease, periodFrom, periodTo, unitsConsumed, ratePerUnit, fixedCharge, tax, issueDate, dueDate) ==
    LET b == LightBillBody(room, tenant, lease, periodFrom, periodTo, unitsConsumed,
                           ratePerUnit, fixedCharge, tax, issueDate, dueDate)
    IN  /\ IF LightBillBodyCode(b) # 0
           THEN /\ last' = Resp("createLightBill", LightBillBodyCode(b), 0)
                /\ UNCHANGED bills
           ELSE IF ExistingBill(bills, b.room, b.tenant, b.lease, b.periodFrom, b.periodTo, 0)
           THEN /\ last' = Resp("createLightBill", 400, 0)
                /\ UNCHANGED bills
           ELSE /\ bills' = Append(bills, NewLightBill(b))
                /\ last' = Resp("createLightBill", 201, 0)
        /\ UNCHANGED <<now, leases, rooms, invoices, payments, settings, proc>>

\* the status update of POST /api/light-bills/:id/pay
BillStatusAfterPay(bill, amount) ==
    IF bill.paidAmount + amount >= bill.totalAmount THEN "paid"
    ELSE IF bill.paidAmount + amount > 0 THEN "partially_paid"
    ELSE bill.status

\* POST /api/light-bills/:id/pay
PayLightBill(id, amount, date) ==
    /\ IF amount = Absent \/ amount = 0 \/ amount <= 0
       THEN /\ last' = Resp("payLightBill", 400, 0)
            /\ UNCHANGED bills
       ELSE IF date = NoDate
       THEN /\ last' = Resp("payLightBill", 400, 0)
            /\ UNCHANGED bills
       ELSE IF id \notin Ids(bills)
       THEN /\ last' = Resp("payLightBill", 404, 0)
            /\ UNCHANGED bills
       ELSE IF bills[id].paidAmount + amount > bills[id].totalAmount
       THEN /\ last' = Resp("payLightBill", 400, 0)
            /\ UNCHANGED bills
       ELSE /\ bills' = [bills EXCEPT ![id] =
                   [@ EXCEPT !.paidAmount = @ + amount,
                             !.status = BillStatusAfterPay(bills[id], amount)]]
            /\ last' = Resp("payLightBill", 200, 0)
    /\ UNCHANGED <<now, leases, rooms, invoices, payments, settings, proc>>

\* the validation of PUT /api/light-bills/:id: the status code of the early
\* return, 0 when the body passes
UpdateBodyCode(periodFrom, periodTo, unitsConsumed, ratePerUnit, issueDate, dueDate) ==
    IF periodFrom # NoDate /\ periodTo # NoDate /\ periodFrom >= periodTo THEN 400
    ELSE IF issueDate # NoDate /\ dueDate # NoDate /\ issueDate >= dueDate THEN 400
    ELSE IF unitsConsumed # Absent /\ unitsConsumed <= 0 THEN 400
    ELSE IF ratePerUnit # Absent /\ ratePerUnit <= 0 THEN 400
    ELSE 0

\* the duplicate check of PUT /api/light-bills/:id, made when the body gives
\* periodFrom or periodTo, against the collection bs
UpdateFindsDuplicate(bs, id, bill, periodFrom, periodTo) ==
    /\ periodFrom # NoDate \/ periodTo # NoDate
    /\ ExistingBill(bs, bill.room, bill.tenant, bill.lease,
                    IF periodFrom # NoDate THEN periodFrom ELSE bill.periodFrom,
                    IF periodTo # NoDate THEN periodTo ELSE bill.periodTo, id)

\* the total recomputed only when the units or the rate are given
TotalRecalculatedForUnitsOrRate(unitsConsumed, ratePerUnit, fixedCharge, tax) ==
    unitsConsumed # Absent \/ ratePerUnit # Absent

\* unitsConsumed !== undefined || ratePerUnit !== undefined ||
\* fixedCharge !== undefined || tax !== undefined
TotalRecalculated(unitsConsumed, ratePerUnit, fixedCharge, tax) ==
    unitsConsumed # Absent \/ ratePerUnit # Absent \/ fixedCharge # Absent \/ tax # Absent

\* the fields of the body written onto the document, and the total
UpdatedBill(bill, periodFrom, periodTo, unitsConsumed, ratePerUnit, fixedCharge, tax, issueDate, dueDate) ==
    LET units == IF unitsConsumed # Absent THEN unitsConsumed ELSE bill.unitsConsumed
        rate == IF ratePerUnit # Absent THEN ratePerUnit ELSE bill.ratePerUnit
        fixed == IF fixedCharge # Absent THEN fixedCharge ELSE bill.fixedCharge
        taxes == IF tax # Absent THEN tax ELSE bill.tax
    IN  [bill EXCEPT
            !.periodFrom = IF periodFrom # NoDate THEN periodFrom ELSE @,
            !.periodTo = IF periodTo # NoDate THEN periodTo ELSE @,
            !.unitsConsumed = units, !.ratePerUnit = rate,
            !.fixedCharge = fixed, !.tax = taxes,
            !.issueDate = IF issueDate # NoDate THEN issueDate ELSE @,
            !.dueDate = IF dueDate # NoDate THEN dueDate ELSE @,
            !.totalAmount = IF TotalRecalculated(unitsConsumed, ratePerUnit, fixedCharge, tax)
                            THEN BillTotal(units, rate, fixed, taxes) ELSE @]

\* PUT /api/light-bills/:id, run without interruption
UpdateLightBill(id, periodFrom, periodTo, unitsConsumed, ratePerUnit, fixedCharge, tax, issueDate, dueDate) ==
    /\ IF id \notin Ids(bills)
       THEN /\ last' = Resp("updateLightBill", 404, 0)
            /\ UNCHANGED bills
       ELSE IF UpdateBodyCode(periodFrom, periodTo, unitsConsumed, ratePerUnit,
                              issueDate, dueDate) # 0
       THEN /\ last' = Resp("updateLightBill", 400, 0)
            /\ UNCHANGED bills
       ELSE IF UpdateFindsDuplicate(bills, id, bills[id], periodFrom, periodTo)
       THEN /\ last' = Resp("updateLightBill", 400, 0)
            /\ UNCHANGED bills
       ELSE /\ bills' = [bills EXCEPT ![id] =
                   UpdatedBill(@, periodFrom, periodTo, unitsConsumed, ratePerUnit,
                               fixedCharge, tax, issueDate, dueDate)]
            /\ last' = Resp("updateLightBill", 200, 0)
    /\ UNCHANGED <<now, leases, rooms, invoices, payments, settings, proc>>

\* DELETE /api/light-bills/:id.  The documents that remain keep their order;
\* a request names a document by its place among them.
DeleteLightBill(id) ==
    /\ IF id \notin Ids(bills)
       THEN /\ last' = Resp("deleteLightBill", 404, 0)
            /\ UNCHANGED bills
       ELSE /\ bills' = SubSeq(bills, 1, id - 1) \o SubSeq(bills, id + 1, Len(bills))
            /\ last' = Resp("deleteLightBill", 200, 0)
    /\ UNCHANGED <<now, leases, rooms, invoices, payments, settings, proc>>

---------------------------------------------------------------------------
(* The lease lifecycle alone *)

LeaseDates == {MkDate(0, 1), MkDate(0, 2)}

InitStore ==
    /\ now = 0
    /\ leases = <<>>
    /\ rooms = [r \in Rooms |-> [status |-> "vacant", currentLease |-> NoLease]]
    /\ invoices = <<>>
    /\ payments = EmptyBag
    /\ bills = <<>>
    /\ settings = <<>>
    /\ proc = [p \in Procs |-> Idle]
    /\ last = Resp("none", 0, 0)

SomeCreateLease ==
    \E tenant \in {"t1", "t0"}, room \in Rooms \cup {"r0"},
       startDate \in LeaseDates \cup {NoDate}, endDate \in LeaseDates \cup {NoDate},
       rentPerMonth \in {0, 2}, depositAgreed \in {0, 1}, billingDay \in {Absent} :
        CreateLease(tenant, room, startDate, endDate, rentPerMonth, depositAgreed, billingDay)

SomeEndLease ==
    \E id \in 1..MaxLeases, endDate \in LeaseDates \cup {NoDate} : EndLease(id, endDate)

SomeUpdateRoom ==
    \E room \in Rooms \cup {"r0"}, status \in RoomStatus \cup {""}, defaultRent \in {Absent, 0, 1} :
        UpdateRoom(room, status, defaultRent)

NextLease == SomeCreateLease \/ SomeEndLease

SpecLease == InitStore /\ [][NextLease]_vars

NextRoom == SomeCreateLease \/ SomeEndLease \/ SomeUpdateRoom

SpecRoom == InitStore /\ [][NextRoom]_vars

---------------------------------------------------------------------------
(* Billing on a store that holds two leases *)

\* the store after two createLease requests, one per room, the first leaving
\* billingDay to the schema's default
BillingLeases(billingDay) ==
    <<NewLease("t1", "r1", MkDate(0, 1), NoDate, 2, 1, Absent),
      NewLease("t2", "r2", MkDate(0, 1), NoDate, 2, 1, billingDay)>>

InitBilling ==
    /\ now = 0
    /\ \E billingDay \in {0, 2} : leases = BillingLeases(billingDay)
    /\ rooms = [r \in Rooms |->
           [status |-> "occupied", currentLease |-> IF r = "r1" THEN 1 ELSE 2]]
    /\ invoices = <<>>
    /\ payments = EmptyBag
    /\ bills = <<>>
    /\ settings = <<>>
    /\ proc = [p \in Procs |-> Idle]
    /\ last = Resp("none", 0, 0)

\* lateFeeConfig values a client may store (the schema validates only type)
LateFeeConfigs ==
    {[type |-> "per_day", graceDays |-> 0, perDayAmount |-> 1, percentage |-> 1],
     [type |-> "percentage", graceDays |-> 0, perDayAmount |-> 5, percentage |-> 100],
     [type |-> "per_day", graceDays |-> 0, perDayAmount |-> 0, percentage |-> 0]}

SomePayInvoice ==
    \E id \in 1..(Len(invoices) + 1), amount \in -1..MaxAmount : PayInvoice(id, amount)

SomeUpdateSettings == \E cfg \in LateFeeConfigs : UpdateSettings(cfg)

\* the first PUT /api/settings only: the configuration, once stored, stays
ConfigureSettings == settings = <<>> /\ SomeUpdateSettings

\* generation alone, with leases being ended
Tick == TickTo(MaxTime)

PayTick == TickTo(MaxPayTime)

NextGen == GenerateMonthly \/ ScheduledGeneration \/ SomeEndLease \/ Tick

SpecGen == InitBilling /\ [][NextGen]_vars

\* generation, payment and late fees under a configuration that stays
NextPay ==
    \/ GenerateMonthly
    \/ ScheduledGeneration
    \/ SomePayInvoice
    \/ RecalculateLateFees
    \/ ConfigureSettings
    \/ PayTick

SpecPay == InitBilling /\ [][NextPay]_vars

\* the same with the configuration changing
NextBilling ==
    \/ GenerateMonthly
    \/ ScheduledGeneration
    \/ SomePayInvoice
    \/ RecalculateLateFees
    \/ SomeUpdateSettings
    \/ PayTick

SpecBilling == InitBilling /\ [][NextBilling]_vars

\* lateFeeConfig values with days of grace
GraceConfigs ==
    {[type |-> "per_day", graceDays |-> 1, perDayAmount |-> 2, percentage |-> 0],
     [type |-> "percentage", graceDays |-> 1, perDayAmount |-> 0, percentage |-> 50]}

SomeUpdateSettingsGrace == \E cfg \in LateFeeConfigs \cup GraceConfigs : UpdateSettings(cfg)

\* payments of one unit
SomePayOne == \E id \in 1..(Len(invoices) + 1) : PayInvoice(id, 1)

FeeTick == TickTo(MaxFeeTime)

\* late fees up to two days after the due date, with and without days of grace
NextLateFee ==
    \/ GenerateMonthly
    \/ ScheduledGeneration
    \/ SomePayOne
    \/ RecalculateLateFees
    \/ SomeUpdateSettingsGrace
    \/ FeeTick

SpecLateFee == InitBilling /\ [][NextLateFee]_vars

---------------------------------------------------------------------------
(* The earlier revision of the invoice routes (unnamed/part_007), whose    *)
(* recalculation writes every invoice it processes and re-derives its      *)
(* status                                                                  *)

\* an unpaid invoice past its due date marked overdue whatever was paid
RederivedStatusOverdueWhateverPaid(today, inv, totalAmount) ==
    IF inv.paidAmount >= totalAmount THEN "paid"
    ELSE IF today > inv.dueDate THEN "overdue"
    ELSE inv.status

\* the status re-derivation, totalAmount being the total just computed
RederivedStatus(today, inv, totalAmount) ==
    IF inv.paidAmount >= totalAmount THEN "paid"
    ELSE IF today > inv.dueDate
    THEN IF inv.paidAmount > 0 THEN "partially_paid" ELSE "overdue"
    ELSE inv.status

\* the loop body: the invoice as the run leaves it
RecalculateOnePart007(cfg, today, inv) ==
    IF Recalculated(inv)
    THEN [inv EXCEPT !.lateFee = LateFee(cfg, today, inv),
                     !.totalAmount = inv.baseAmount + LateFee(cfg, today, inv),
                     !.status = RederivedStatus(today, inv,
                                                inv.baseAmount + LateFee(cfg, today, inv))]
    ELSE inv

\* POST /api/invoices/recalculate-late-fees of the earlier revision, run
\* without interruption; updatedCount counts every invoice processed
RecalculateLateFeesPart007 ==
    /\ IF settings = <<>>
       THEN /\ last' = Resp("recalculate", 400, 0)
            /\ UNCHANGED invoices
       ELSE /\ invoices' = [k \in Ids(invoices) |->
                   RecalculateOnePart007(settings[1].lateFeeConfig, now, invoices[k])]
            /\ last' = Resp("recalculate", 200,
                            Cardinality({k \in Ids(invoices) : Recalculated(invoices[k])}))
    /\ UNCHANGED <<now, leases, rooms, payments, bills, settings, proc>>

\* billing with the recalculation of either revision
NextOverdue ==
    \/ GenerateMonthly
    \/ ScheduledGeneration
    \/ SomePayInvoice
    \/ RecalculateLateFees
    \/ RecalculateLateFeesPart007
    \/ SomeUpdateSettings
    \/ PayTick

SpecOverdue == InitBilling /\ [][NextOverdue]_vars

---------------------------------------------------------------------------
(* Light bills on a store that holds two leases and their invoices *)

\* the store after the scheduled job of the 1st has run
InitLightBill ==
    /\ now = 1
    /\ leases = BillingLeases(Absent)
    /\ rooms = [r \in Rooms |->
           [status |-> "occupied", currentLease |-> IF r = "r1" THEN 1 ELSE 2]]
    /\ invoices = GenerateFrom("cron", now, 1, <<>>)
    /\ payments = EmptyBag
    /\ bills = <<>>
    /\ settings = <<>>
    /\ proc = [p \in Procs |-> Idle]
    /\ last = Resp("scheduled", 0, 2)

\* the client gives today as the issue date, or leaves the dates to the
\* latest invoice
SomeCreateLightBill ==
    /\ Len(bills) < MaxBills
    /\ \E room \in {"r1", "r0", ""}, tenant \in {"t1", ""}, lease \in {NoLease, 1},
          periodFrom \in {NoDate, MkDate(0, 1)}, periodTo \in {NoDate, MkDate(1, 0)},
          unitsConsumed \in {0, 2}, ratePerUnit \in {Absent, 1},
          fixedCharge \in {Absent, 1}, tax \in {Absent},
          issueDate \in {NoDate, now}, dueDate \in {NoDate, MkDate(0, 1)} :
            CreateLightBill(room, tenant, lease, periodFrom, periodTo, unitsConsumed,
                            ratePerUnit, fixedCharge, tax, issueDate, dueDate)

\* an update carrying any subset of the amounts, with or without a new end of
\* the period
SomeUpdateLightBill ==
    \E id \in 1..(Len(bills) + 1),
       periodFrom \in {NoDate}, periodTo \in {NoDate, MkDate(1, 1)},
       unitsConsumed \in {Absent, 1}, ratePerUnit \in {Absent, 2},
       fixedCharge \in {Absent, 0}, tax \in {Absent, 1} :
        UpdateLightBill(id, periodFrom, periodTo, unitsConsumed, ratePerUnit,
                        fixedCharge, tax, NoDate, NoDate)

SomePayLightBill ==
    \E id \in 1..(Len(bills) + 1), amount \in -1..MaxAmount, date \in {NoDate, now} :
        PayLightBill(id, amount, date)

NextLightBill == SomeCreateLightBill \/ SomeUpdateLightBill \/ SomePayLightBill

SpecLightBill == InitLightBill /\ [][NextLightBill]_vars

---------------------------------------------------------------------------
(* Invoices and light bills side by side: every operation that could touch *)
(* the Payment collection                                                  *)

\* one light bill for room r1, its dates left to the latest invoice
CreateOneLightBill ==
    /\ Len(bills) < MaxBills
    /\ CreateLightBill("r1", "", NoLease, NoDate, NoDate, 2, 1, Absent, Absent, NoDate, NoDate)

UpdateOneLightBill == \E id \in 1..(Len(bills) + 1) :
    UpdateLightBill(id, NoDate, NoDate, 1, Absent, Absent, Absent, NoDate, NoDate)

PayOneLightBill == \E id \in 1..(Len(bills) + 1) : PayLightBill(id, 1, now)

SomeDeleteLightBill == \E id \in 1..(Len(bills) + 1) : DeleteLightBill(id)

NextPayments ==
    \/ GenerateMonthly
    \/ SomePayInvoice
    \/ RecalculateLateFees
    \/ CreateOneLightBill
    \/ UpdateOneLightBill
    \/ PayOneLightBill
    \/ SomeDeleteLightBill
    \/ PayTick

SpecPayments == InitBilling /\ [][NextPayments]_vars

---------------------------------------------------------------------------
(* The dates of light bills: requests that give all, some or none of them *)

BillDates == {MkDate(0, 1), MkDate(0, 2), MkDate(1, 1)}

\* POST /api/light-bills for room r1 with its four dates in the body
CreateLightBillWithDates ==
    /\ Len(bills) < MaxBills
    /\ \E periodFrom \in BillDates, periodTo \in BillDates,
          issueDate \in BillDates, dueDate \in BillDates :
        CreateLightBill("r1", "t1", 1, periodFrom, periodTo, 1, 1, Absent, Absent, issueDate, dueDate)

\* PUT /api/light-bills/:id with any subset of the four dates in the body
UpdateLightBillDates ==
    \E id \in 1..(Len(bills) + 1),
       periodFrom \in BillDates \cup {NoDate}, periodTo \in BillDates \cup {NoDate},
       issueDate \in BillDates \cup {NoDate}, dueDate \in BillDates \cup {NoDate} :
        UpdateLightBill(id, periodFrom, periodTo, Absent, Absent, Absent, Absent, issueDate, dueDate)

NextBillDates == CreateLightBillWithDates \/ UpdateLightBillDates

SpecBillDates == InitLightBill /\ [][NextBillDates]_vars

---------------------------------------------------------------------------
(* Generation runs that overlap: each await of the loop is a step *)

\* Lease.find({status: "active"}): the documents read, each with its _id
RECURSIVE ActiveLeasesFrom(_)
ActiveLeasesFrom(i) ==
    IF i > Len(leases) THEN <<>>
    ELSE IF leases[i].status = "active"
    THEN <<[id |-> i, doc |-> leases[i]]>> \o ActiveLeasesFrom(i + 1)
    ELSE ActiveLeasesFrom(i + 1)

\* a run starts: today = new Date(), then await Lease.find(...)
GenStart(p, kind) ==
    /\ proc[p] = Idle
    /\ kind = "cron" =>
        /\ CronTime(now)
        /\ \A q \in Procs : proc[q].pc \in {"check", "create"} => proc[q].kind # "cron"
    /\ proc' = [proc EXCEPT ![p] =
           [pc |-> "check", kind |-> kind, today |-> now,
            found |-> ActiveLeasesFrom(1), idx |-> 1, created |-> 0]]
    /\ UNCHANGED <<now, leases, rooms, invoices, payments, bills, settings, last>>

\* await Invoice.findOne({lease, periodFrom, periodTo}) for the lease at idx
GenCheck(p) ==
    /\ proc[p].pc = "check"
    /\ proc[p].idx <= Len(proc[p].found)
    /\ proc' = [proc EXCEPT ![p] =
           IF ExistingInvoice(invoices, proc[p].found[proc[p].idx].id,
                              FirstDay(proc[p].today), LastDay(proc[p].today))
           THEN [@ EXCEPT !.idx = @ + 1]
           ELSE [@ EXCEPT !.pc = "create"]]
    /\ UNCHANGED <<now, leases, rooms, invoices, payments, bills, settings, last>>

\* await Invoice.create({...}) for the lease at idx
GenCreate(p) ==
    /\ proc[p].pc = "create"
    /\ invoices' = Append(invoices,
           NewInvoice(proc[p].kind, proc[p].today,
                      proc[p].found[proc[p].idx].id, proc[p].found[proc[p].idx].doc))
    /\ proc' = [proc EXCEPT ![p] =
           [@ EXCEPT !.pc = "check", !.idx = @ + 1, !.created = @ + 1]]
    /\ UNCHANGED <<now, leases, rooms, payments, bills, settings, last>>

\* the loop is over: the response (the endpoint) or the log line (the job)
GenFinish(p) ==
    /\ proc[p].pc = "check"
    /\ proc[p].idx > Len(proc[p].found)
    /\ last' = IF proc[p].kind = "manual"
               THEN Resp("generate", 201, proc[p].created)
               ELSE Resp("scheduled", 0, proc[p].created)
    /\ proc' = [proc EXCEPT ![p] = Idle]
    /\ UNCHANGED <<now, leases, rooms, invoices, payments, bills, settings>>

\* await Invoice.create({...}) rejects (a storage error): the catch around
\* the whole loop ends the run, with 500 (the endpoint) or a log line (the job)
GenFail(p) ==
    /\ proc[p].pc = "create"
    /\ last' = Resp(IF proc[p].kind = "manual" THEN "generate" ELSE "scheduled", 500, 0)
    /\ proc' = [proc EXCEPT ![p] = Idle]
    /\ UNCHANGED <<now, leases, rooms, invoices, payments, bills, settings>>

\* 02:00 on the 1st of a month, the leases in place and no invoice yet
InitGenRace ==
    /\ now = 1
    /\ \E billingDay \in {0, 2} : leases = BillingLeases(billingDay)
    /\ rooms = [r \in Rooms |->
           [status |-> "occupied", currentLease |-> IF r = "r1" THEN 1 ELSE 2]]
    /\ invoices = <<>>
    /\ payments = EmptyBag
    /\ bills = <<>>
    /\ settings = <<>>
    /\ proc = [p \in Procs |-> Idle]
    /\ last = Resp("none", 0, 0)

NextGenRace ==
    \E p \in Procs :
        \/ \E kind \in {"manual", "cron"} : GenStart(p, kind)
        \/ GenCheck(p)
        \/ GenCreate(p)
        \/ GenFinish(p)

SpecGenRace == InitGenRace /\ [][NextGenRace]_vars

\* generation runs in which a write may fail
NextGenFail ==
    \E p \in Procs :
        \/ \E kind \in {"manual", "cron"} : GenStart(p, kind)
        \/ GenCheck(p)
        \/ GenCreate(p)
        \/ GenFail(p)
        \/ GenFinish(p)

SpecGenFail == InitGenRace /\ [][NextGenFail]_vars

---------------------------------------------------------------------------
(* Payments that overlap: each await of POST /:id/pay is a step *)

\* the validation of amount, then await Invoice.findById(id): the document
\* is read into the request's memory
PayBegin(p, id, amount) ==
    /\ proc[p] = Idle
    /\ proc' = [proc EXCEPT ![p] =
           IF amount = Absent \/ amount = 0 \/ amount <= 0
           THEN [pc |-> "done", id |-> id, amount |-> amount, code |-> 400]
           ELSE IF id \notin Ids(invoices)
           THEN [pc |-> "done", id |-> id, amount |-> amount, code |-> 404]
           ELSE [pc |-> "found", id |-> id, amount |-> amount, doc |-> invoices[id]]]
    /\ UNCHANGED <<now, leases, rooms, invoices, payments, bills, settings, last>>

\* the check against the document read, then await Payment.create({...})
PayInsert(p) ==
    /\ proc[p].pc = "found"
    /\ IF WouldExceed(proc[p].doc, proc[p].amount)
       THEN /\ proc' = [proc EXCEPT ![p] =
                   [pc |-> "done", id |-> proc[p].id, amount |-> proc[p].amount,
                    code |-> 400]]
            /\ UNCHANGED payments
       ELSE /\ payments' = payments (+)
                   SetToBag({NewPayment(proc[p].id, proc[p].doc, proc[p].amount)})
            /\ proc' = [proc EXCEPT ![p] = [@ EXCEPT !.pc = "inserted"]]
    /\ UNCHANGED <<now, leases, rooms, invoices, bills, settings, last>>

\* invoice.paidAmount = newPaidAmount; the status update; await
\* invoice.save(), which writes the paths modified on the document read:
\* paidAmount, and status when it differs from the status read
PaySave(p) ==
    /\ proc[p].pc = "inserted"
    /\ invoices' = [invoices EXCEPT ![proc[p].id] =
           [@ EXCEPT !.paidAmount = proc[p].doc.paidAmount + proc[p].amount,
                     !.status = IF StatusAfterPay(proc[p].doc, proc[p].amount)
                                       # proc[p].doc.status
                                THEN StatusAfterPay(proc[p].doc, proc[p].amount)
                                ELSE @]]
    /\ proc' = [proc EXCEPT ![p] =
           [pc |-> "done", id |-> proc[p].id, amount |-> proc[p].amount, code |-> 201]]
    /\ last' = Resp("pay", 201, 0)
    /\ UNCHANGED <<now, leases, rooms, payments, bills, settings>>

\* the invoices of the month just generated by the scheduled job
InitPayRace ==
    /\ now = 1
    /\ \E billingDay \in {0, 2} : leases = BillingLeases(billingDay)
    /\ rooms = [r \in Rooms |->
           [status |-> "occupied", currentLease |-> IF r = "r1" THEN 1 ELSE 2]]
    /\ invoices = GenerateFrom("cron", now, 1, <<>>)
    /\ payments = EmptyBag
    /\ bills = <<>>
    /\ settings = <<>>
    /\ proc = [p \in Procs |-> Idle]
    /\ last = Resp("scheduled", 0, 2)

\* each process serves one payment request
NextPayRace ==
    \E p \in Procs :
        \/ \E id \in 1..(Len(invoices) + 1), amount \in -1..MaxAmount : PayBegin(p, id, amount)
        \/ PayInsert(p)
        \/ PaySave(p)

SpecPayRace == InitPayRace /\ [][NextPayRace]_vars

---------------------------------------------------------------------------
(* Light-bill requests that overlap: each await of POST / and PUT /:id that *)
(* reads or writes the LightBill collection is a step                      *)

InFlightCreates == Cardinality({q \in Procs : proc[q].pc = "billInsert"})

\* POST /: the auto-fetch, the validation and await LightBill.findOne({...})
BillCreateBegin(p, room, tenant, lease, periodFrom, periodTo, unitsConsumed, ratePerUnit, fixedCharge, tax, issueDate, dueDate) ==
    LET b == LightBillBody(room, tenant, lease, periodFrom, periodTo, unitsConsumed,
                           ratePerUnit, fixedCharge, tax, issueDate, dueDate)
    IN  /\ proc[p] = Idle
        /\ Len(bills) + InFlightCreates < MaxRaceBills
        /\ IF LightBillBodyCode(b) # 0
           THEN /\ last' = Resp("createLightBill", LightBillBodyCode(b), 0)
                /\ UNCHANGED proc
           ELSE IF ExistingBill(bills, b.room, b.tenant, b.lease, b.periodFrom, b.periodTo, 0)
           THEN /\ last' = Resp("createLightBill", 400, 0)
                /\ UNCHANGED proc
           ELSE /\ proc' = [proc EXCEPT ![p] = [pc |-> "billInsert", doc |-> NewLightBill(b)]]
                /\ UNCHANGED last
        /\ UNCHANGED <<now, leases, rooms, invoices, payments, bills, settings>>

\* POST /: await LightBill.create({...}), then the response
BillCreateInsert(p) ==
    /\ proc[p].pc = "billInsert"
    /\ bills' = Append(bills, proc[p].doc)
    /\ proc' = [proc EXCEPT ![p] = Idle]
    /\ last' = Resp("createLightBill", 201, 0)
    /\ UNCHANGED <<now, leases, rooms, invoices, payments, settings>>

\* PUT /:id: await LightBill.findById(id), the document read into the
\* request's memory, and the validation of the body
BillUpdateBegin(p, id, periodFrom, periodTo, unitsConsumed, ratePerUnit, fixedCharge, tax, issueDate, dueDate) ==
    /\ proc[p] = Idle
    /\ IF id \notin Ids(bills)
       THEN /\ last' = Resp("updateLightBill", 404, 0)
            /\ UNCHANGED proc
       ELSE IF UpdateBodyCode(periodFrom, periodTo, unitsConsumed, ratePerUnit,
                              issueDate, dueDate) # 0
       THEN /\ last' = Resp("updateLightBill", 400, 0)
            /\ UNCHANGED proc
       ELSE /\ proc' = [proc EXCEPT ![p] =
                   [pc |-> "billFound", id |-> id, doc |-> bills[id],
                    periodFrom |-> periodFrom, periodTo |-> periodTo,
                    updated |-> UpdatedBill(bills[id], periodFrom, periodTo, unitsConsumed,
                                            ratePerUnit, fixedCharge, tax, issueDate, dueDate)]]
            /\ UNCHANGED last
    /\ UNCHANGED <<now, leases, rooms, invoices, payments, bills, settings>>

\* PUT /:id: await LightBill.findOne({...}) when the body gives a period
\* bound, against the periods the document read had
BillUpdateCheck(p) ==
    /\ proc[p].pc = "billFound"
    /\ IF UpdateFindsDuplicate(bills, proc[p].id, proc[p].doc,
                               proc[p].periodFrom, proc[p].periodTo)
       THEN /\ proc' = [proc EXCEPT ![p] = Idle]
            /\ last' = Resp("updateLightBill", 400, 0)
       ELSE /\ proc' = [proc EXCEPT ![p] = [@ EXCEPT !.pc = "billSave"]]
            /\ UNCHANGED last
    /\ UNCHANGED <<now, leases, rooms, invoices, payments, bills, settings>>

\* document.save(): the paths whose value differs from the value read are
\* written, the others keep what the collection holds
SavedPaths(stored, read, updated) ==
    [f \in DOMAIN stored |-> IF updated[f] # read[f] THEN updated[f] ELSE stored[f]]

\* PUT /:id: await lightBill.save(), then the response
BillUpdateSave(p) ==
    /\ proc[p].pc = "billSave"
    /\ bills' = [bills EXCEPT ![proc[p].id] = SavedPaths(@, proc[p].doc, proc[p].updated)]
    /\ proc' = [proc EXCEPT ![p] = Idle]
    /\ last' = Resp("updateLightBill", 200, 0)
    /\ UNCHANGED <<now, leases, rooms, invoices, payments, settings>>

\* creates and period updates for one room, tenant and lease
NextBillRace ==
    \E p \in Procs :
        \/ \E tenant \in {"t1", ""}, periodTo \in {NoDate, MkDate(1, 0), MkDate(1, 1)} :
               BillCreateBegin(p, "r1", tenant, 1, MkDate(0, 1), periodTo, 2, 1,
                               Absent, Absent, now, MkDate(0, 2))
        \/ BillCreateInsert(p)
        \/ \E id \in 1..(Len(bills) + 1), periodFrom \in {NoDate, MkDate(0, 1), MkDate(1, 1)},
              periodTo \in {NoDate, MkDate(1, 0), MkDate(1, 1)} :
               BillUpdateBegin(p, id, periodFrom, periodTo, Absent, Absent, Absent, Absent,
                               NoDate, NoDate)
        \/ BillUpdateCheck(p)
        \/ BillUpdateSave(p)

SpecBillRace == InitLightBill /\ [][NextBillRace]_vars

---------------------------------------------------------------------------
(* Requests in which a write to the store fails: the rejected await throws *)
(* into the handler's catch, which answers 500                             *)

\* POST /api/leases when Lease.create (write = "lease") or
\* Room.findByIdAndUpdate (write = "room") rejects; the request has passed
\* the validation and the checks
CreateLeaseFailing(tenant, room, startDate, endDate, rentPerMonth, depositAgreed, billingDay, write) ==
    /\ Len(leases) < MaxLeases
    /\ LeaseBodyCode(tenant, room, startDate, rentPerMonth, depositAgreed) = 0
    /\ rooms[room].status # "occupied"
    /\ ~ExistingLease(room, startDate, endDate)
    /\ IF write = "lease"
       THEN UNCHANGED leases
       ELSE leases' = Append(leases,
                NewLease(tenant, room, startDate, endDate,
                         rentPerMonth, depositAgreed, billingDay))
    /\ last' = Resp("createLease", 500, 0)
    /\ UNCHANGED <<now, rooms, invoices, payments, bills, settings, proc>>

\* POST /api/invoices/:id/pay when Payment.create (write = "payment") or
\* invoice.save (write = "invoice") rejects; the request has passed the
\* validation and the check against the total
PayInvoiceFailing(id, amount, write) ==
    /\ ~(amount = Absent \/ amount = 0 \/ amount <= 0)
    /\ id \in Ids(invoices)
    /\ ~WouldExceed(invoices[id], amount)
    /\ IF write = "payment"
       THEN UNCHANGED payments
       ELSE payments' = payments (+) SetToBag({NewPayment(id, invoices[id], amount)})
    /\ last' = Resp("pay", 500, 0)
    /\ UNCHANGED <<now, leases, rooms, invoices, bills, settings, proc>>

SomeCreateLeaseFailing ==
    \E tenant \in {"t1"}, room \in Rooms, startDate \in LeaseDates,
       endDate \in LeaseDates \cup {NoDate}, write \in {"lease", "room"} :
        CreateLeaseFailing(tenant, room, startDate, endDate, 2, 1, Absent, write)

SomePayInvoiceFailing ==
    /\ BagCardinality(payments) < MaxPayments
    /\ \E id \in 1..(Len(invoices) + 1), amount \in 1..MaxAmount, write \in {"payment", "invoice"} :
        PayInvoiceFailing(id, amount, write)

\* the store after one createLease request, for room r1
InitFail ==
    /\ now = 0
    /\ leases = <<NewLease("t1", "r1", MkDate(0, 1), NoDate, 2, 1, Absent)>>
    /\ rooms = [r \in Rooms |->
           IF r = "r1" THEN [status |-> "occupied", currentLease |-> 1]
           ELSE [status |-> "vacant", currentLease |-> NoLease]]
    /\ invoices = <<>>
    /\ payments = EmptyBag
    /\ bills = <<>>
    /\ settings = <<>>
    /\ proc = [p \in Procs |-> Idle]
    /\ last = Resp("createLease", 201, 0)

\* leases and payments with writes that may fail
NextFail ==
    \/ SomeCreateLease
    \/ SomeCreateLeaseFailing
    \/ GenerateMonthly
    \/ SomePayInvoice
    \/ SomePayInvoiceFailing

SpecFail == InitFail /\ [][NextFail]_vars

---------------------------------------------------------------------------
(* Properties of the lease lifecycle *)

ActiveOrUpcoming(r) ==
    {i \in Ids(leases) : leases[i].room = r /\ leases[i].status \in {"active", "upcoming"}}

\* C5: in every state reachable by createLease, endLease and room-update
\* requests, each room is referenced by at most one lease whose status is
\* active or upcoming.
C5_LeaseExclusivity ==
    \A r \in Rooms : Cardinality(ActiveOrUpcoming(r)) <= 1

\* C9: in every state reachable by createLease and endLease calls, a room is
\* occupied if and only if its currentLease references a lease that is active
\* and whose room is that room.
C9_OccupiedIffActiveCurrentLease ==
    \A r \in Rooms :
        rooms[r].status = "occupied" <=>
            /\ rooms[r].currentLease \in Ids(leases)
            /\ leases[rooms[r].currentLease].status = "active"
            /\ leases[rooms[r].currentLease].room = r

\* C9's case: a room let again after its first lease was ended, while a lease
\* of the other room was ended too
C9_Witness ==
    /\ last = Resp("createLease", 201, 0)
    /\ \E r \in Rooms :
        /\ rooms[r].status = "occupied"
        /\ leases[rooms[r].currentLease].status = "active"
        /\ \E i \in Ids(leases) : leases[i].room = r /\ leases[i].status = "ended"
    /\ \E r \in Rooms : rooms[r].status = "vacant"

---------------------------------------------------------------------------
(* Properties of invoice generation *)

SameLeasePeriod(a, b) ==
    a.lease = b.lease /\ a.periodFrom = b.periodFrom /\ a.periodTo = b.periodTo

\* C1: after any number of generation runs (the endpoint and the scheduled
\* job), one after the other, at most one invoice exists for each
\* (lease, periodFrom, periodTo).
C1_OneInvoicePerLeasePeriod ==
    \A i, j \in Ids(invoices) : SameLeasePeriod(invoices[i], invoices[j]) => i = j

\* C1's case: a run in a month whose invoices exist already, which created
\* none, on a store that holds a lease's invoices of two months
C1_Witness ==
    /\ last = Resp("generate", 201, 0)
    /\ \E i, j \in Ids(invoices) :
        /\ invoices[i].lease = invoices[j].lease
        /\ invoices[i].periodFrom < invoices[j].periodFrom
        /\ MonthOf(now) = MonthOf(invoices[j].periodFrom)

\* C10: every generated invoice has baseAmount = totalAmount = the lease's
\* rentPerMonth, lateFee = 0, paidAmount = 0, status unpaid, the first to the
\* last day of the target month as its period, and the lease's billingDay
\* (1 if unset) of that same month as its dueDate.
C10_GeneratedInvoiceFields ==
    \A k \in Ids(invoices) :
        LET inv == invoices[k]
            l == leases[inv.lease]
            month == MonthOf(inv.periodFrom)
        IN  /\ inv.baseAmount = l.rentPerMonth
            /\ inv.totalAmount = l.rentPerMonth
            /\ inv.lateFee = 0
            /\ inv.paidAmount = 0
            /\ inv.status = "unpaid"
            /\ inv.periodFrom = MkDate(month, 1)
            /\ inv.periodTo = MkDate(month + 1, 1) - TicksPerDay
            /\ inv.dueDate = MkDate(month, BillingDayOr1(l))

---------------------------------------------------------------------------
(* Properties of payment and late fees *)

\* a payInvoice request that the claim says is rejected
MustBeRejected(id, amount) ==
    \/ amount <= 0
    \/ id \in Ids(invoices) /\ invoices[id].paidAmount + amount > invoices[id].totalAmount

\* C3: paidAmount <= totalAmount for every invoice, and a payInvoice call with
\* amount <= 0 or with paidAmount + amount > totalAmount is rejected, changes
\* no invoice and creates no payment.
C3_NoOverpayment ==
    /\ [](\A k \in Ids(invoices) : invoices[k].paidAmount <= invoices[k].totalAmount)
    /\ [][\A id \in 1..(Len(invoices) + 1), amount \in -1..MaxAmount :
            (PayInvoice(id, amount) /\ MustBeRejected(id, amount)) =>
                (last'.code = 400 /\ UNCHANGED <<invoices, payments>>)]_vars

\* C3's case: a payment rejected on an invoice that is partly paid and whose
\* total a late fee has raised
C3_Witness ==
    /\ last = Resp("pay", 400, 0)
    /\ \E k \in Ids(invoices) :
        /\ invoices[k].status = "partially_paid"
        /\ invoices[k].lateFee > 0
        /\ invoices[k].paidAmount > invoices[k].baseAmount

\* C6: two invoices with the same paidAmount, totalAmount and dueDate (at the
\* same current time) have the same status, whatever payments and
\* recalculations brought them there.
C6_StatusPathIndependent ==
    \A i, j \in Ids(invoices) :
        ( /\ invoices[i].paidAmount = invoices[j].paidAmount
          /\ invoices[i].totalAmount = invoices[j].totalAmount
          /\ invoices[i].dueDate = invoices[j].dueDate )
        => invoices[i].status = invoices[j].status

\* the amounts paid on invoice id, as a bag
PaidOn(id, amount) ==
    CopiesIn([invoice |-> id, lease |-> invoices[id].lease,
              tenant |-> invoices[id].tenant, amount |-> amount], payments)

\* C6's case: two invoices brought to the same amounts by different payments,
\* one in a single payment and one in two, after a late fee was applied
C6_Witness ==
    \E i, j \in Ids(invoices) :
        /\ i # j
        /\ invoices[i].paidAmount = invoices[j].paidAmount
        /\ invoices[i].totalAmount = invoices[j].totalAmount
        /\ invoices[i].dueDate = invoices[j].dueDate
        /\ invoices[i].lateFee > 0
        /\ PaidOn(i, 2) = 1
        /\ PaidOn(j, 1) = 2

\* C7: right after a recalculation (no time passed, no payment and no settings
\* change since) a second run leaves every invoice as it is and reports zero
\* updated invoices.
C7_SecondRunUpdatesNothing ==
    (last.op = "recalculate" /\ last.code = 200) =>
        /\ \A k \in Ids(invoices) :
            RecalculateOne(settings[1].lateFeeConfig, now, invoices[k]) = invoices[k]
        /\ UpdatedCount(settings[1].lateFeeConfig, now, invoices) = 0

\* C7's case: a run that has just updated two invoices, one of them partly paid
C7_Witness ==
    /\ last = Resp("recalculate", 200, 2)
    /\ \E k \in Ids(invoices) : invoices[k].lateFee > 0 /\ invoices[k].status = "partially_paid"
    /\ \E k \in Ids(invoices) : invoices[k].lateFee > 0 /\ invoices[k].status = "unpaid"

\* C8: every invoice satisfies 0 <= paidAmount <= totalAmount, also when the
\* lateFeeConfig changes between recalculations.
C8_PaidWithinTotal ==
    \A k \in Ids(invoices) :
        0 <= invoices[k].paidAmount /\ invoices[k].paidAmount <= invoices[k].totalAmount

\* the late fee as the claim states it, for cfg at time t
StatedLateFee(cfg, t, inv) ==
    LET diffDays == (t - inv.dueDate) \div TicksPerDay
    IN  IF diffDays <= cfg.graceDays THEN 0
        ELSE IF cfg.type = "per_day" THEN (diffDays - cfg.graceDays) * cfg.perDayAmount
        ELSE (inv.baseAmount * cfg.percentage) \div 100

\* C12: after recalculateLateFees every invoice with status unpaid or
\* partially_paid has lateFee = (diffDays - graceDays) * perDayAmount (per_day)
\* or baseAmount * percentage / 100 (percentage) when diffDays > graceDays and
\* 0 otherwise, diffDays being the whole days elapsed since dueDate, and
\* totalAmount = baseAmount + lateFee; 10 days late with graceDays 3,
\* perDayAmount 5 and baseAmount 5000 gives lateFee 35.
C12_LateFeeFormula ==
    /\ (last.op = "recalculate" /\ last.code = 200) =>
            \A k \in Ids(invoices) :
                invoices[k].status \in {"unpaid", "partially_paid"} =>
                    /\ invoices[k].lateFee =
                           StatedLateFee(settings[1].lateFeeConfig, now, invoices[k])
                    /\ invoices[k].totalAmount =
                           invoices[k].baseAmount
                           + StatedLateFee(settings[1].lateFeeConfig, now, invoices[k])
    /\ LateFee([type |-> "per_day", graceDays |-> 3, perDayAmount |-> 5, percentage |-> 0],
               MkDate(0, 1) + 10 * TicksPerDay,
               [dueDate |-> MkDate(0, 1), baseAmount |-> 5000]) = 35

\* C12's case: a run under one day of grace that charged a partly paid invoice
\* two days late for one day and left an invoice one day late without a fee
C12_Witness ==
    /\ last.op = "recalculate" /\ last.code = 200
    /\ settings[1].lateFeeConfig.graceDays = 1
    /\ settings[1].lateFeeConfig.type = "per_day"
    /\ \E i, j \in Ids(invoices) :
        /\ invoices[i].status = "partially_paid"
        /\ DiffDays(now, invoices[i].dueDate) = 2
        /\ invoices[i].lateFee = 2
        /\ invoices[i].totalAmount = 4
        /\ invoices[j].status = "unpaid"
        /\ DiffDays(now, invoices[j].dueDate) = 1
        /\ invoices[j].lateFee = 0

---------------------------------------------------------------------------
(* Properties of light bills *)

\* C13: in every state reachable by createLightBill, updateLightBill (with any
\* subset of fields) and payLightBill, every stored LightBill has
\* totalAmount = unitsConsumed * ratePerUnit + fixedCharge + tax.
C13_BillTotalFormula ==
    \A k \in Ids(bills) :
        bills[k].totalAmount =
            bills[k].unitsConsumed * bills[k].ratePerUnit + bills[k].fixedCharge + bills[k].tax

\* C13's case: a partly paid bill whose tax alone was then updated
C13_Witness ==
    /\ last = Resp("updateLightBill", 200, 0)
    /\ \E k \in Ids(bills) :
        /\ bills[k].tax = 1
        /\ bills[k].fixedCharge = 1
        /\ bills[k].unitsConsumed = 2
        /\ bills[k].ratePerUnit = 1
        /\ bills[k].totalAmount = 4
        /\ bills[k].status = "partially_paid"

\* C14: every LightBill satisfies 0 <= paidAmount <= totalAmount, also after
\* an update that lowers unitsConsumed, ratePerUnit, fixedCharge or tax on a
\* partly or fully paid bill.
C14_BillPaidWithinTotal ==
    \A k \in Ids(bills) :
        0 <= bills[k].paidAmount /\ bills[k].paidAmount <= bills[k].totalAmount

SameBillKey(a, b) ==
    /\ a.room = b.room /\ a.tenant = b.tenant /\ a.lease = b.lease
    /\ a.periodFrom = b.periodFrom /\ a.periodTo = b.periodTo

\* C15: after any createLightBill and updateLightBill requests, also when the
\* duplicate check and the write of two requests interleave, at most one
\* LightBill exists per (room, tenant, lease, periodFrom, periodTo).
C15_OneBillPerPeriod ==
    \A i, j \in Ids(bills) : SameBillKey(bills[i], bills[j]) => i = j

\* C17: once a LightBill's status is paid, no updateLightBill or payLightBill
\* call moves it to partially_paid, unpaid or overdue.
C17_BillPaidIsTerminal ==
    [][\A k \in Ids(bills) : bills[k].status = "paid" => bills'[k].status = "paid"]_vars

---------------------------------------------------------------------------
(* Properties of payment and late fees, continued *)

\* C11: after every successful payInvoice the invoice's paidAmount has grown by
\* exactly the amount paid and its status is paid if paidAmount >= totalAmount
\* and partially_paid otherwise; a further positive payment on a paid invoice
\* is rejected.
C11_PaymentEffect ==
    [][\A id \in 1..(Len(invoices) + 1), amount \in -1..MaxAmount :
        PayInvoice(id, amount) =>
            /\ last'.code = 201 =>
                /\ invoices'[id].paidAmount = invoices[id].paidAmount + amount
                /\ invoices'[id].status =
                       IF invoices'[id].paidAmount >= invoices'[id].totalAmount
                       THEN "paid" ELSE "partially_paid"
                /\ \A k \in Ids(invoices) : k # id => invoices'[k] = invoices[k]
            /\ (id \in Ids(invoices) /\ invoices[id].status = "paid" /\ amount > 0) =>
                (last'.code = 400 /\ UNCHANGED invoices)]_vars

\* C11's case: an invoice paid in two parts, the first leaving it partly paid
\* and the second paid, on which a further payment was then rejected
C11_Witness ==
    /\ last = Resp("pay", 400, 0)
    /\ \E k \in Ids(invoices) :
        /\ invoices[k].status = "paid"
        /\ invoices[k].lateFee = 0
        /\ PaidOn(k, 1) = 2
    /\ \E k \in Ids(invoices) : invoices[k].status = "partially_paid"

\* C16: once an invoice's status is paid, no payInvoice, recalculateLateFees
\* or generate-monthly call changes its status, paidAmount, lateFee or
\* totalAmount.
C16_PaidIsTerminal ==
    [][\A k \in Ids(invoices) :
        invoices[k].status = "paid" =>
            /\ invoices'[k].status = "paid"
            /\ invoices'[k].paidAmount = invoices[k].paidAmount
            /\ invoices'[k].lateFee = invoices[k].lateFee
            /\ invoices'[k].totalAmount = invoices[k].totalAmount]_vars

\* C16's case: a recalculation that raised the fee of an unpaid invoice and
\* left alone a paid invoice with the same due date
C16_Witness ==
    /\ last.op = "recalculate" /\ last.code = 200 /\ last.count > 0
    /\ \E i, j \in Ids(invoices) :
        /\ invoices[i].status = "paid"
        /\ invoices[i].lateFee = 0
        /\ invoices[j].status = "unpaid"
        /\ invoices[j].lateFee > 0
        /\ invoices[i].dueDate = invoices[j].dueDate

\* C18: an invoice whose status is overdue has paidAmount = 0 and a dueDate
\* earlier than the time its status was derived (so earlier than now); an
\* invoice with paidAmount > 0 is never overdue, whatever order payments and
\* recalculations occur in.
C18_OverdueMeansUnpaidPastDue ==
    \A k \in Ids(invoices) :
        /\ invoices[k].status = "overdue" =>
               (invoices[k].paidAmount = 0 /\ invoices[k].dueDate < now)
        /\ invoices[k].paidAmount > 0 => invoices[k].status # "overdue"

\* C18's case: a recalculation that marked an unpaid invoice overdue, while an
\* invoice marked overdue before has since been partly paid
C18_Witness ==
    /\ last.op = "recalculate" /\ last.code = 200
    /\ \E i, j \in Ids(invoices) :
        /\ invoices[i].status = "overdue"
        /\ invoices[i].lateFee > invoices[j].lateFee
        /\ invoices[j].status = "partially_paid"
        /\ invoices[j].lateFee > 0
        /\ invoices[j].dueDate = invoices[i].dueDate

\* C22: under generate-monthly, payInvoice and recalculateLateFees, with
\* late-fee settings that are not negative, every invoice has lateFee >= 0 and
\* totalAmount = baseAmount + lateFee.
C22_TotalIsBasePlusLateFee ==
    \A k \in Ids(invoices) :
        /\ invoices[k].lateFee >= 0
        /\ invoices[k].totalAmount = invoices[k].baseAmount + invoices[k].lateFee

\* C22's case: a recalculation has just charged a late fee on an invoice that
\* was paid in part
C22_Witness ==
    /\ last.op = "recalculate"
    /\ last.count > 0
    /\ \E k \in Ids(invoices) :
        /\ invoices[k].lateFee > 0
        /\ invoices[k].paidAmount > 0
        /\ invoices[k].status = "partially_paid"

\* the reference test: the periods [startDate, endDate] of a stored lease and
\* of a request overlap, a missing end date meaning an unbounded period
PeriodsOverlap(l, startDate, endDate) ==
    /\ (HasEnd(l) => startDate <= l.endDate)
    /\ (endDate # NoDate => l.startDate <= endDate)

\* C23: when createLease reaches the overlap check it rejects the request
\* exactly when an active or upcoming lease of the room overlaps the requested
\* period by the reference test, for stored and requested periods with and
\* without an end date.
C23_ConflictIsOverlap ==
    [][\A tenant \in Tenants, room \in Rooms,
          startDate \in LeaseDates, endDate \in LeaseDates \cup {NoDate} :
            (/\ CreateLease(tenant, room, startDate, endDate, 2, 1, Absent)
             /\ rooms[room].status # "occupied"
             /\ (endDate # NoDate => startDate <= endDate))
            => (last'.code = 400 <=>
                    \E i \in ActiveOrUpcomingIn(room) :
                        PeriodsOverlap(leases[i], startDate, endDate))]_vars

\* C24: recalculateLateFees re-derives the status of every invoice it
\* processes: paid when paidAmount >= totalAmount, otherwise, once the due date
\* has passed, partially_paid when something was paid and overdue when nothing
\* was, otherwise unchanged; after a run every invoice with no payment whose
\* due date has passed is overdue.
C24_RecalculationRederivesStatus ==
    [][RecalculateLateFees /\ last'.code = 200 =>
        \A k \in Ids(invoices) :
            Recalculated(invoices[k]) =>
                invoices'[k].status =
                    RederivedStatus(now, invoices[k], invoices'[k].totalAmount)]_vars

\* C25: light bills that were created or updated, the updates giving any
\* subset of the date fields, always have periodFrom < periodTo and
\* issueDate < dueDate.
C25_BillDatesOrdered ==
    \A k \in Ids(bills) :
        /\ bills[k].periodFrom < bills[k].periodTo
        /\ bills[k].issueDate < bills[k].dueDate

\* the invoices of a collection for one lease and the month of today
InvoicesOfMonth(invs, leaseId, today) ==
    {k \in Ids(invs) :
        /\ invs[k].lease = leaseId
        /\ invs[k].periodFrom = FirstDay(today)
        /\ invs[k].periodTo = LastDay(today)}

\* C26: after a generation run, manual or scheduled, every lease whose status
\* is active has exactly one invoice for the current month's period, and the
\* run has created no invoice for a lease of another status; a lease ended
\* before the run gets no new invoice.
C26_RunInvoicesActiveLeasesOnly ==
    [][GenerateMonthly \/ ScheduledGeneration =>
        /\ \A i \in Ids(leases) :
            leases[i].status = "active" =>
                Cardinality(InvoicesOfMonth(invoices', i, now)) = 1
        /\ Len(invoices') >= Len(invoices)
        /\ SubSeq(invoices', 1, Len(invoices)) = invoices
        /\ \A k \in (Len(invoices) + 1)..Len(invoices') :
            leases[invoices'[k].lease].status = "active"]_vars

\* C26's case: a run that created one invoice, for the active lease, while the
\* other lease was ended before the run and has no invoice of the month
C26_Witness ==
    /\ last.op \in {"generate", "scheduled"}
    /\ last.count = 1
    /\ \E i, j \in Ids(leases) :
        /\ leases[i].status = "active"
        /\ leases[j].status = "ended"
        /\ Cardinality(InvoicesOfMonth(invoices, i, now)) = 1
        /\ InvoicesOfMonth(invoices, j, now) = {}

\* C27: when two createLease requests for the same vacant room interleave
\* their checks and their writes, at most one of them succeeds: once both
\* have answered, the room has at most one active lease, and the room's
\* currentLease is the one lease that was created.
C27_ConcurrentLeasesOneSucceeds ==
    (\A p \in Procs : proc[p].pc = "done") =>
        \A room \in Rooms :
            /\ Cardinality({p \in Procs : proc[p].room = room /\ proc[p].code = 201}) <= 1
            /\ Cardinality(ActiveOrUpcomingIn(room)) <= 1
            /\ \A i \in ActiveOrUpcomingIn(room) : rooms[room].currentLease = i

\* the fields on which the two ways of generating are compared
ComparedFields(inv) ==
    [lease |-> inv.lease, periodFrom |-> inv.periodFrom, periodTo |-> inv.periodTo,
     dueDate |-> inv.dueDate, baseAmount |-> inv.baseAmount,
     totalAmount |-> inv.totalAmount]

\* C28: the manual endpoint and the scheduled job are equivalent: from the
\* same store at the same date they create invoices for the same leases, with
\* the same periodFrom, periodTo, dueDate, baseAmount and totalAmount.
C28_ManualEqualsScheduled ==
    [][GenerateMonthly =>
        LET scheduled == GenerateFrom("cron", now, 1, invoices)
        IN  /\ Len(invoices') = Len(scheduled)
            /\ \A k \in Ids(scheduled) :
                ComparedFields(invoices'[k]) = ComparedFields(scheduled[k])]_vars

\* C30: once an invoice's status is overdue, a recalculation of late fees
\* never again changes its lateFee, totalAmount or status, however many days
\* pass; only a payment changes such an invoice.
C30_OverdueIsFrozenForRecalculation ==
    [][\A k \in Ids(invoices) :
        invoices[k].status = "overdue" =>
            /\ (RecalculateLateFees \/ RecalculateLateFeesPart007 =>
                    /\ invoices'[k].lateFee = invoices[k].lateFee
                    /\ invoices'[k].totalAmount = invoices[k].totalAmount
                    /\ invoices'[k].status = invoices[k].status)
            /\ (invoices'[k] # invoices[k] => last' = Resp("pay", 201, 0))]_vars

\* C30's case: a recalculation has just run over an overdue invoice whose
\* stored late fee is below the fee the settings give for the day
C30_Witness ==
    /\ last.op = "recalculate" /\ last.code = 200
    /\ \E k \in Ids(invoices) :
        /\ invoices[k].status = "overdue"
        /\ invoices[k].lateFee < LateFee(settings[1].lateFeeConfig, now, invoices[k])

\* C21: Payment records are append-only and arise only from successful
\* invoice payments: a successful payInvoice adds exactly one Payment with the
\* amount paid and the invoice's lease and tenant, a rejected one adds none,
\* and payLightBill, updateLightBill, deleteLightBill, recalculateLateFees
\* and generate-monthly leave the Payment records as they are.
C21_PaymentsOnlyFromInvoicePayments ==
    [][/\ \A id \in 1..(Len(invoices) + 1), amount \in -1..MaxAmount :
            PayInvoice(id, amount) =>
                IF last'.code = 201
                THEN payments' = payments (+)
                        SetToBag({[invoice |-> id, lease |-> invoices[id].lease,
                                   tenant |-> invoices[id].tenant, amount |-> amount]})
                ELSE payments' = payments
       /\ last'.op # "pay" => payments' = payments
       /\ payments \sqsubseteq payments']_vars

\* C21's case: a light bill was deleted after two payments of 1 were made on
\* one invoice, and both payments are still recorded
C21_Witness ==
    /\ last = Resp("deleteLightBill", 200, 0)
    /\ bills = <<>>
    /\ \E k \in Ids(invoices) :
        /\ PaidOn(k, 1) = 2
        /\ invoices[k].paidAmount = 2

---------------------------------------------------------------------------
(* Lease requests that overlap: each await of POST /api/leases is a step *)

\* the body validation and await Tenant.findById(tenant)
LeaseBegin(p, tenant, room, startDate, endDate) ==
    /\ proc[p] = Idle
    /\ proc' = [proc EXCEPT ![p] =
           IF LeaseBodyCode(tenant, room, startDate, 2, 1) # 0
           THEN [pc |-> "done", room |-> room,
                 code |-> LeaseBodyCode(tenant, room, startDate, 2, 1)]
           ELSE [pc |-> "validated", tenant |-> tenant, room |-> room,
                 startDate |-> startDate, endDate |-> endDate]]
    /\ UNCHANGED <<now, leases, rooms, invoices, payments, bills, settings, last>>

\* await Room.findById(room) and the check of its status
LeaseCheckRoom(p) ==
    /\ proc[p].pc = "validated"
    /\ proc' = [proc EXCEPT ![p] =
           IF rooms[proc[p].room].status = "occupied"
           THEN [pc |-> "done", room |-> proc[p].room, code |-> 400]
           ELSE [@ EXCEPT !.pc = "roomFree"]]
    /\ UNCHANGED <<now, leases, rooms, invoices, payments, bills, settings, last>>

\* await Lease.findOne(leaseQuery)
LeaseCheckOverlap(p) ==
    /\ proc[p].pc = "roomFree"
    /\ proc' = [proc EXCEPT ![p] =
           IF ExistingLease(proc[p].room, proc[p].startDate, proc[p].endDate)
           THEN [pc |-> "done", room |-> proc[p].room, code |-> 400]
           ELSE [@ EXCEPT !.pc = "noOverlap"]]
    /\ UNCHANGED <<now, leases, rooms, invoices, payments, bills, settings, last>>

\* await Lease.create({...})
LeaseInsert(p) ==
    /\ proc[p].pc = "noOverlap"
    /\ leases' = Append(leases,
           NewLease(proc[p].tenant, proc[p].room, proc[p].startDate, proc[p].endDate,
                    2, 1, Absent))
    /\ proc' = [proc EXCEPT ![p] =
           [pc |-> "created", room |-> proc[p].room, lease |-> Len(leases) + 1]]
    /\ UNCHANGED <<now, rooms, invoices, payments, bills, settings, last>>

\* await Room.findByIdAndUpdate(room, {status: "occupied", currentLease: lease._id})
LeaseOccupyRoom(p) ==
    /\ proc[p].pc = "created"
    /\ rooms' = [rooms EXCEPT ![proc[p].room] =
           [status |-> "occupied", currentLease |-> proc[p].lease]]
    /\ proc' = [proc EXCEPT ![p] = [pc |-> "done", room |-> proc[p].room, code |-> 201]]
    /\ last' = Resp("createLease", 201, 0)
    /\ UNCHANGED <<now, leases, invoices, payments, bills, settings>>

\* each process serves one request for a lease
NextLeaseRace ==
    \E p \in Procs :
        \/ \E tenant \in Tenants, room \in Rooms \cup {"r0"},
              startDate \in LeaseDates, endDate \in LeaseDates \cup {NoDate} :
                LeaseBegin(p, tenant, room, startDate, endDate)
        \/ LeaseCheckRoom(p)
        \/ LeaseCheckOverlap(p)
        \/ LeaseInsert(p)
        \/ LeaseOccupyRoom(p)

SpecLeaseRace == InitStore /\ [][NextLeaseRace]_vars

---------------------------------------------------------------------------
(* Properties of overlapping requests *)

AllIdle == \A p \in Procs : proc[p] = Idle

\* C2: when two generation runs interleave their find-existing and create
\* steps, at most one invoice per (lease, periodFrom, periodTo) exists once
\* both runs have finished.
C2_OneInvoiceAfterOverlappingRuns ==
    AllIdle =>
        \A i, j \in Ids(invoices) : SameLeasePeriod(invoices[i], invoices[j]) => i = j

\* C19: in the batch jobs a failure while creating one lease's invoice does
\* not abort the batch: every other lease of the iteration is still processed
\* (it has its invoice of the period when the run ends), and the result
\* reports what was created.
C19_BatchIsolatesFailures ==
    [][\A p \in Procs :
        GenFail(p) =>
            /\ \A k \in (proc[p].idx + 1)..Len(proc[p].found) :
                   ExistingInvoice(invoices', proc[p].found[k].id,
                                   FirstDay(proc[p].today), LastDay(proc[p].today))
            /\ last'.count = proc[p].created]_vars

\* C20: a request that fails with a storage error leaves no partial state
\* change: a failed payInvoice leaves neither a new Payment nor a changed
\* invoice, a failed createLease neither a new Lease nor a changed room.
C20_FailedRequestChangesNothing ==
    [][last'.code = 500 => UNCHANGED <<leases, rooms, invoices, payments>>]_vars

\* the payments recorded for invoice id, summed
RECURSIVE SumPaid(_, _)
SumPaid(id, amount) ==
    IF amount = 0 THEN 0 ELSE amount * PaidOn(id, amount) + SumPaid(id, amount - 1)

\* C4: two concurrent payInvoice requests for the same invoice, each amount
\* within the total and the two together beyond it: at least one is rejected,
\* paidAmount <= totalAmount, and paidAmount accounts for every accepted
\* payment.
C4_ConcurrentPaymentsOneRejected ==
    ( /\ \A p \in Procs : proc[p].pc = "done"
      /\ proc["p1"].id = proc["p2"].id
      /\ proc["p1"].id \in Ids(invoices)
      /\ \A p \in Procs : proc[p].amount > 0
                          /\ proc[p].amount <= invoices[proc[p].id].totalAmount
      /\ proc["p1"].amount + proc["p2"].amount > invoices[proc["p1"].id].totalAmount )
    => /\ \E p \in Procs : proc[p].code = 400
       /\ invoices[proc["p1"].id].paidAmount <= invoices[proc["p1"].id].totalAmount
       /\ invoices[proc["p1"].id].paidAmount = SumPaid(proc["p1"].id, MaxAmount)

\* C29: under any interleaving of payInvoice requests with no failing write,
\* whenever no request is in flight each invoice's paidAmount equals the sum
\* of the amounts of the Payment records that reference it.
C29_PaidAmountIsSumOfPayments ==
    (\A p \in Procs : proc[p].pc \in {"idle", "done"}) =>
        \A id \in Ids(invoices) : invoices[id].paidAmount = SumPaid(id, MaxAmount)

===========================================================================
